---- MODULE Spec2Model ----
(***************************************************************************)
(* Passport form view: grouping of the requested values into scopes        *)
(* (ComputeScopes), the one-line summary of a scope                        *)
(* (ComputeScopeRowReadyString) and the row shown for it (ComputeScopeRow),*)
(* from Telegram/SourceFiles/passport/passport_form_view_controller.cpp.   *)
(*                                                                         *)
(* A pointer to a Value (not_null<const Value*>) is the key of that Value  *)
(* in form.values; a QString is a string; Assert / Unexpected are the      *)
(* `failed` / `fatal` flags of the results.                                *)
(***************************************************************************)
EXTENDS Naturals, Sequences, FiniteSets, TLC

VARIABLES
    request,                \* form.request
    values,                 \* form.values: key -> the Value's type
    identitySelfieRequired, \* form.identitySelfieRequired
    pc,                     \* "start", "built" or "aborted" (an Assert fired)
    scopes,                 \* the vector ComputeScopes returned
    valueData,              \* the Values' contents read by the last row
    documentScheme,         \* the rows GetDocumentScheme gave the last row
    contactFormat,          \* whether GetContactScheme gave it a formatter
    rowIndex,               \* the scope of the last row, 0 before the first
    row                     \* the last ScopeRow computed

vars == <<request, values, identitySelfieRequired, pc, scopes, valueData,
          documentScheme, contactFormat, rowIndex, row>>

----------------------------------------------------------------------------
(* Bounds *)

\* longest request list of the builder specification
MaxRequest == 3
\* longest request list of the summary specification (documents of one scope)
MaxDocuments == 2
\* most scans attached to one value
MaxScans == 1
\* most rows of a document scheme
MaxRows == 2

----------------------------------------------------------------------------
(* Category map *)

ValueTypes ==
    {"PersonalDetails", "Passport", "DriverLicense", "IdentityCard",
     "Address", "UtilityBill", "BankStatement", "RentalAgreement",
     "Phone", "Email"}

ScopeTypes == {"Identity", "Address", "Phone", "Email"}

\* std::map<Scope::Type, ...> iterates in the order of the enumerators
ScopeTypeOrder == <<"Identity", "Address", "Phone", "Email">>

ScopeTypesMap ==
    [t \in ValueTypes |->
        CASE t \in {"PersonalDetails", "Passport", "DriverLicense",
                    "IdentityCard"} -> "Identity"
          [] t \in {"Address", "UtilityBill", "BankStatement",
                    "RentalAgreement"} -> "Address"
          [] t = "Phone" -> "Phone"
          [] t = "Email" -> "Email"]

\* the map with the utility bill filed under Identity
ScopeTypeForValueTypeMisfiled(type) ==
    IF type \in DOMAIN ScopeTypesMap
    THEN [failed |-> FALSE,
          type |-> IF type = "UtilityBill" THEN "Identity"
                   ELSE ScopeTypesMap[type]]
    ELSE [failed |-> TRUE, type |-> "Identity"]

\* [failed |-> the Assert fired, type |-> the scope type]
ScopeTypeForValueType(type) ==
    IF type \in DOMAIN ScopeTypesMap
    THEN [failed |-> FALSE, type |-> ScopeTypesMap[type]]
    ELSE [failed |-> TRUE, type |-> "Identity"]

ScopeFieldsMap ==
    [s \in ScopeTypes |->
        CASE s = "Identity" -> "PersonalDetails"
          [] s = "Address" -> "Address"
          [] s = "Phone" -> "Phone"
          [] s = "Email" -> "Email"]

\* the map with the passport as the anchor of Identity
FieldsTypeForScopeTypeMisanchored(type) ==
    IF type \in DOMAIN ScopeFieldsMap
    THEN [failed |-> FALSE,
          type |-> IF type = "Identity" THEN "Passport"
                   ELSE ScopeFieldsMap[type]]
    ELSE [failed |-> TRUE, type |-> "PersonalDetails"]

FieldsTypeForScopeType(type) ==
    IF type \in DOMAIN ScopeFieldsMap
    THEN [failed |-> FALSE, type |-> ScopeFieldsMap[type]]
    ELSE [failed |-> TRUE, type |-> "PersonalDetails"]

----------------------------------------------------------------------------
(* Scope builder *)

\* Scope::Scope(type, fields): no documents, selfieRequired = false
NewScope(type, fields) ==
    [type |-> type, fields |-> fields, documents |-> <<>>,
     selfieRequired |-> FALSE]

\* findValue: the Assert fires when form.values has no such key
FindValueFails(vals, type) == type \notin DOMAIN vals

\* the search looking at the last document only
AlreadyInBack(vals, documents, type) ==
    /\ documents # <<>>
    /\ vals[documents[Len(documents)]].type = type

\* ranges::find(documents, type, &Value::type) != end
AlreadyIn(vals, documents, type) ==
    \E j \in 1..Len(documents) : vals[documents[j]].type = type

\* One iteration of the loop over form.request.
\* st = [failed, scopes], scopes a function from the scope types present.
ScopesLoopBody(vals, selfie, st, type) ==
    LET scopeType == ScopeTypeForValueType(type)
    IN  IF scopeType.failed THEN [st EXCEPT !.failed = TRUE]
        ELSE
        LET fieldsType == FieldsTypeForScopeType(scopeType.type)
        IN  IF fieldsType.failed \/ FindValueFails(vals, fieldsType.type)
            THEN [st EXCEPT !.failed = TRUE]
            ELSE
            LET sT == scopeType.type
                fT == fieldsType.type
                emplaced ==
                    IF sT \in DOMAIN st.scopes THEN st.scopes[sT]
                    ELSE NewScope(sT, fT)
                scope == [emplaced EXCEPT
                    !.selfieRequired = (sT = "Identity") /\ selfie]
                put(s) ==
                    [k \in DOMAIN st.scopes \cup {sT} |->
                        IF k = sT THEN s ELSE st.scopes[k]]
            IN  IF AlreadyIn(vals, scope.documents, type)
                THEN [st EXCEPT !.scopes = put(scope)]
                ELSE IF type # fT
                THEN IF FindValueFails(vals, type)
                     THEN [st EXCEPT !.failed = TRUE]
                     ELSE [st EXCEPT !.scopes = put(
                            [scope EXCEPT
                                !.documents = Append(@, type)])]
                ELSE [st EXCEPT !.scopes = put(scope)]

RECURSIVE ScopesLoop(_, _, _, _)
ScopesLoop(vals, selfie, st, req) ==
    IF st.failed \/ req = <<>> THEN st
    ELSE ScopesLoop(vals, selfie,
                    ScopesLoopBody(vals, selfie, st, Head(req)), Tail(req))

\* the values of the map, in descending key order
ScopesInDescendingOrder(map) ==
    LET present == SelectSeq(ScopeTypeOrder, LAMBDA s : s \in DOMAIN map)
    IN  [i \in 1..Len(present) |-> map[present[Len(present) + 1 - i]]]

\* the values of the map, in key order
ScopesInOrder(map) ==
    LET present == SelectSeq(ScopeTypeOrder, LAMBDA s : s \in DOMAIN map)
    IN  [i \in 1..Len(present) |-> map[present[i]]]

\* [failed |-> an Assert fired, result |-> the returned vector]
ComputeScopes(req, vals, selfie) ==
    LET st == ScopesLoop(vals, selfie,
                         [failed |-> FALSE, scopes |-> <<>>], req)
    IN  IF st.failed THEN [failed |-> TRUE, result |-> <<>>]
        ELSE [failed |-> FALSE, result |-> ScopesInOrder(st.scopes)]

----------------------------------------------------------------------------
(* Summary formatter *)

\* lang(key): the localized string of a key
lang(key) == key

\* a row's validator and formatter, when the row has one
Validate(value) == value # "bad"

Format(value) == "<" \o value \o ">"

\* QStringList::join
RECURSIVE Join(_, _)
Join(list, sep) ==
    IF list = <<>> THEN ""
    ELSE IF Len(list) = 1 THEN list[1]
    ELSE list[1] \o sep \o Join(Tail(list), sep)

\* the last document with scans (the loop not returning at the first)
RepresentativeDocumentLast(scope, data) ==
    LET withScans == {j \in 1..Len(scope.documents) :
                        data[scope.documents[j]].scans # 0}
    IN  IF withScans = {} THEN 0
        ELSE CHOOSE j \in withScans : \A k \in withScans : j >= k

\* the first document with scans, as its index in documents; 0 is nullptr
RepresentativeDocument(scope, data) ==
    LET withScans == {j \in 1..Len(scope.documents) :
                        data[scope.documents[j]].scans # 0}
    IN  IF withScans = {} THEN 0
        ELSE CHOOSE j \in withScans : \A k \in withScans : j <= k

\* the switch over document->type; "" stands for the Unexpected default
DocumentLabel(type) ==
    CASE type = "Passport" -> lang("lng_passport_identity_passport")
      [] type = "DriverLicense" -> lang("lng_passport_identity_license")
      [] type = "IdentityCard" -> lang("lng_passport_identity_card")
      [] type = "BankStatement" -> lang("lng_passport_address_statement")
      [] type = "UtilityBill" -> lang("lng_passport_address_bill")
      [] type = "RentalAgreement" -> lang("lng_passport_address_agreement")
      [] OTHER -> ""

\* the loop body with the document branch not calling the validator
SchemeRowValueUnvalidated(r, fields, document, documentFields) ==
    IF r.valueClass = "Fields"
    THEN IF r.key \notin DOMAIN fields
         THEN [ready |-> FALSE, text |-> ""]
         ELSE IF r.validate /\ ~Validate(fields[r.key])
         THEN [ready |-> FALSE, text |-> ""]
         ELSE [ready |-> TRUE,
               text |-> IF r.format THEN Format(fields[r.key])
                        ELSE fields[r.key]]
    ELSE IF document = 0
    THEN [ready |-> FALSE, text |-> ""]
    ELSE IF r.key \notin DOMAIN documentFields
         THEN [ready |-> FALSE, text |-> ""]
         ELSE [ready |-> TRUE, text |-> documentFields[r.key]]

\* the body of the loop over scheme.rows, for one row:
\* [ready |-> no early return, text |-> the element pushed to the list]
SchemeRowValue(r, fields, document, documentFields) ==
    IF r.valueClass = "Fields"
    THEN IF r.key \notin DOMAIN fields
         THEN [ready |-> FALSE, text |-> ""]
         ELSE IF r.validate /\ ~Validate(fields[r.key])
         THEN [ready |-> FALSE, text |-> ""]
         ELSE [ready |-> TRUE,
               text |-> IF r.format THEN Format(fields[r.key])
                        ELSE fields[r.key]]
    ELSE IF document = 0
    THEN [ready |-> FALSE, text |-> ""]
    ELSE IF r.key \notin DOMAIN documentFields
         THEN [ready |-> FALSE, text |-> ""]
         ELSE IF r.validate /\ ~Validate(documentFields[r.key])
         THEN [ready |-> FALSE, text |-> ""]
         ELSE [ready |-> TRUE, text |-> documentFields[r.key]]

\* the loop over scheme.rows, from row n on, with the list built so far:
\* [ready |-> no early return, list |-> the list]
RECURSIVE SchemeRows(_, _, _, _, _, _)
SchemeRows(rows, n, fields, document, documentFields, list) ==
    IF n > Len(rows) THEN [ready |-> TRUE, list |-> list]
    ELSE LET v == SchemeRowValue(rows[n], fields, document, documentFields)
         IN  IF ~v.ready THEN [ready |-> FALSE, list |-> list]
             ELSE SchemeRows(rows, n + 1, fields, document, documentFields,
                             Append(list, v.text))

\* the check without the selfie
DocumentIncompleteScansOnly(scope, document, d) ==
    document # 0 /\ d.scans = 0

\* document && (document->scans.empty()
\*     || (scope.selfieRequired && !document->selfie)); d the document's data
DocumentIncomplete(scope, document, d) ==
    document # 0 /\ (d.scans = 0 \/ (scope.selfieRequired /\ ~d.selfie))

\* the Identity / Address case:
\* [fatal |-> Unexpected reached, ready |-> no early return, list |-> list]
DocumentScopeList(scope, vals, data, rows) ==
    LET fields == data[scope.fields].fields
        document == RepresentativeDocument(scope, data)
        handle == IF document = 0 THEN scope.fields
                  ELSE scope.documents[document]
        labelled == document # 0 /\ Len(scope.documents) > 1
        label == DocumentLabel(vals[handle].type)
        list == IF labelled THEN <<label>> ELSE <<>>
    IN  IF labelled /\ label = ""
        THEN [fatal |-> TRUE, ready |-> FALSE, list |-> <<>>]
        ELSE IF DocumentIncomplete(scope, document, data[handle])
        THEN [fatal |-> FALSE, ready |-> FALSE, list |-> list]
        ELSE LET walk == SchemeRows(rows, 1, fields, document,
                                    data[handle].fields, list)
             IN  [fatal |-> FALSE, ready |-> walk.ready, list |-> walk.list]

\* [fatal |-> Unexpected reached, text |-> the returned string]
ComputeScopeRowReadyString(scope, vals, data, rows, format) ==
    IF scope.type \in {"Identity", "Address"}
    THEN LET l == DocumentScopeList(scope, vals, data, rows)
         IN  [fatal |-> l.fatal,
              text |-> IF l.fatal \/ ~l.ready THEN ""
                       ELSE Join(l.list, ", ")]
    ELSE IF scope.type \in {"Phone", "Email"}
    THEN LET fields == data[scope.fields].fields
         IN  [fatal |-> FALSE,
              text |-> IF "value" \in DOMAIN fields
                       THEN (IF format THEN Format(fields["value"])
                             ELSE fields["value"])
                       ELSE ""]
    ELSE [fatal |-> TRUE, text |-> ""]

----------------------------------------------------------------------------
(* Row presenter *)

Row(title, subtitle, ready) ==
    [fatal |-> ready.fatal, title |-> lang(title),
     subtitle |-> lang(subtitle), ready |-> ready.text]

UnexpectedRow == [fatal |-> TRUE, title |-> "", subtitle |-> "", ready |-> ""]

\* the presenter taking the first document's pair whenever there is a document
ComputeScopeRowByFront(scope, vals, data, rows, format) ==
    LET ready == ComputeScopeRowReadyString(scope, vals, data, rows, format)
        front == vals[scope.documents[1]].type
    IN  CASE scope.type = "Identity" ->
             IF scope.documents = <<>>
             THEN Row("lng_passport_personal_details",
                      "lng_passport_personal_details_enter", ready)
             ELSE CASE front = "Passport" ->
                       Row("lng_passport_identity_passport",
                           "lng_passport_identity_passport_upload", ready)
                    [] front = "IdentityCard" ->
                       Row("lng_passport_identity_card",
                           "lng_passport_identity_card_upload", ready)
                    [] front = "DriverLicense" ->
                       Row("lng_passport_identity_license",
                           "lng_passport_identity_license_upload", ready)
                    [] OTHER -> UnexpectedRow
          [] scope.type = "Address" ->
             IF scope.documents = <<>>
             THEN Row("lng_passport_address",
                      "lng_passport_address_enter", ready)
             ELSE CASE front = "BankStatement" ->
                       Row("lng_passport_address_statement",
                           "lng_passport_address_statement_upload", ready)
                    [] front = "UtilityBill" ->
                       Row("lng_passport_address_bill",
                           "lng_passport_address_bill_upload", ready)
                    [] front = "RentalAgreement" ->
                       Row("lng_passport_address_agreement",
                           "lng_passport_address_agreement_upload", ready)
                    [] OTHER -> UnexpectedRow
          [] scope.type = "Phone" ->
             Row("lng_passport_phone_title",
                 "lng_passport_phone_description", ready)
          [] scope.type = "Email" ->
             Row("lng_passport_email_title",
                 "lng_passport_email_description", ready)
          [] OTHER -> UnexpectedRow

\* [fatal |-> Unexpected reached, title, subtitle, ready]
ComputeScopeRow(scope, vals, data, rows, format) ==
    LET ready == ComputeScopeRowReadyString(scope, vals, data, rows, format)
        front == vals[scope.documents[1]].type
    IN  CASE scope.type = "Identity" ->
             IF scope.documents = <<>>
             THEN Row("lng_passport_personal_details",
                      "lng_passport_personal_details_enter", ready)
             ELSE IF Len(scope.documents) = 1
             THEN CASE front = "Passport" ->
                       Row("lng_passport_identity_passport",
                           "lng_passport_identity_passport_upload", ready)
                    [] front = "IdentityCard" ->
                       Row("lng_passport_identity_card",
                           "lng_passport_identity_card_upload", ready)
                    [] front = "DriverLicense" ->
                       Row("lng_passport_identity_license",
                           "lng_passport_identity_license_upload", ready)
                    [] OTHER -> UnexpectedRow
             ELSE Row("lng_passport_identity_title",
                      "lng_passport_identity_description", ready)
          [] scope.type = "Address" ->
             IF scope.documents = <<>>
             THEN Row("lng_passport_address",
                      "lng_passport_address_enter", ready)
             ELSE IF Len(scope.documents) = 1
             THEN CASE front = "BankStatement" ->
                       Row("lng_passport_address_statement",
                           "lng_passport_address_statement_upload", ready)
                    [] front = "UtilityBill" ->
                       Row("lng_passport_address_bill",
                           "lng_passport_address_bill_upload", ready)
                    [] front = "RentalAgreement" ->
                       Row("lng_passport_address_agreement",
                           "lng_passport_address_agreement_upload", ready)
                    [] OTHER -> UnexpectedRow
             ELSE Row("lng_passport_address_title",
                      "lng_passport_address_description", ready)
          [] scope.type = "Phone" ->
             Row("lng_passport_phone_title",
                 "lng_passport_phone_description", ready)
          [] scope.type = "Email" ->
             Row("lng_passport_email_title",
                 "lng_passport_email_description", ready)
          [] OTHER -> UnexpectedRow

----------------------------------------------------------------------------
(* Inputs *)

\* request lists of at most n categories
Requests(types, n) == UNION {[1..k -> types] : k \in 0..n}

\* form.values holds a Value(type) under each key it has; the key sets:
\* every category, or every category but one
ValueStores ==
    {[k \in K |-> [type |-> k]] :
        K \in {ValueTypes} \cup {ValueTypes \ {t} : t \in ValueTypes}}

\* the document categories of a scope category
DocumentTypes(s) ==
    {t \in ValueTypes : ScopeTypesMap[t] = s /\ t # ScopeFieldsMap[s]}

\* requests of one document scope: its primary category, then documents
DocumentRequests ==
    {<<ScopeFieldsMap[s]>> \o docs :
        s \in {"Identity", "Address"},
        docs \in Requests(ValueTypes, MaxDocuments)} \cap
    UNION {Requests({t \in ValueTypes : ScopeTypesMap[t] = s},
                    MaxDocuments + 1) : s \in {"Identity", "Address"}}

FieldKeys == {"a"}

FieldStrings == {"x", "bad"}

FieldMaps(keys) == UNION {[K -> FieldStrings] : K \in SUBSET keys}

\* a Value as constructed: no fields, no scans, no selfie
BlankData == [fields |-> <<>>, scans |-> 0, selfie |-> FALSE]

FilledData ==
    [fields |-> [k \in FieldKeys \cup {"value"} |-> "x"],
     scans |-> 1, selfie |-> TRUE]

\* the contents of the Values of one scope, the other Values blank
ScopeData(scope, keys) ==
    LET docs == {scope.documents[j] : j \in 1..Len(scope.documents)}
    IN  {[t \in DOMAIN values |->
            IF t = scope.fields
            THEN [fields |-> p, scans |-> 0, selfie |-> FALSE]
            ELSE IF t \in docs THEN d[t] ELSE BlankData] :
         p \in FieldMaps(keys),
         d \in [docs -> [fields : FieldMaps(keys), scans : 0..MaxScans,
                         selfie : BOOLEAN]]}

SchemeRowSet ==
    [key : FieldKeys, valueClass : {"Fields", "Scans"},
     validate : BOOLEAN, format : BOOLEAN]

DocumentSchemes == UNION {[1..n -> SchemeRowSet] : n \in 0..MaxRows}

DefaultScheme ==
    <<[key |-> "a", valueClass |-> "Fields", validate |-> TRUE,
       format |-> TRUE],
      [key |-> "a", valueClass |-> "Scans", validate |-> FALSE,
       format |-> FALSE]>>

----------------------------------------------------------------------------
(* State machine *)

NoRow == [fatal |-> FALSE, title |-> "", subtitle |-> "", ready |-> ""]

InitCommon ==
    /\ pc = "start"
    /\ scopes = <<>>
    /\ valueData = [t \in DOMAIN values |-> BlankData]
    /\ documentScheme = <<>>
    /\ contactFormat = FALSE
    /\ rowIndex = 0
    /\ row = NoRow

\* a form as loaded: any request, any key set of form.values
Init ==
    /\ request \in Requests(ValueTypes, MaxRequest)
    /\ values \in ValueStores
    /\ identitySelfieRequired \in BOOLEAN
    /\ InitCommon

\* a form requesting one document scope, or the phone, or the email
InitRow ==
    /\ request \in DocumentRequests \cup {<<"Phone">>, <<"Email">>}
    /\ values = [k \in ValueTypes |-> [type |-> k]]
    /\ identitySelfieRequired \in BOOLEAN
    /\ InitCommon

ComputeScopesStep ==
    /\ pc = "start"
    /\ LET r == ComputeScopes(request, values, identitySelfieRequired)
       IN  /\ pc' = IF r.failed THEN "aborted" ELSE "built"
           /\ scopes' = r.result
    /\ UNCHANGED <<request, values, identitySelfieRequired, valueData,
                   documentScheme, contactFormat, rowIndex, row>>

\* ComputeScopeRow(scopes[i]) reading contents d, rows and formatter f
ComputeScopeRowStep(i, d, rows, f) ==
    /\ pc = "built"
    /\ pc' = "row"
    /\ rowIndex' = i
    /\ valueData' = d
    /\ documentScheme' = rows
    /\ contactFormat' = f
    /\ row' = ComputeScopeRow(scopes[i], values, d, rows, f)
    /\ UNCHANGED <<request, values, identitySelfieRequired, scopes>>

\* a row of the loaded form, its Values all blank or all filled in
PresentRow ==
    /\ pc = "built"
    /\ \E i \in 1..Len(scopes) :
        \E d \in {[t \in DOMAIN values |-> BlankData],
                  [t \in DOMAIN values |-> FilledData]} :
            IF scopes[i].type \in {"Identity", "Address"}
            THEN ComputeScopeRowStep(i, d, DefaultScheme, FALSE)
            ELSE \E f \in BOOLEAN : ComputeScopeRowStep(i, d, <<>>, f)

\* the row of a scope, for every content of its Values and every scheme
SummariseRow ==
    /\ pc = "built"
    /\ \E i \in 1..Len(scopes) :
        IF scopes[i].type \in {"Identity", "Address"}
        THEN \E d \in ScopeData(scopes[i], FieldKeys) :
                \E rows \in DocumentSchemes :
                    ComputeScopeRowStep(i, d, rows, FALSE)
        ELSE \E d \in ScopeData(scopes[i], {"value"}) :
                \E f \in BOOLEAN :
                    ComputeScopeRowStep(i, d, <<>>, f)

Next == ComputeScopesStep \/ PresentRow

NextRow == ComputeScopesStep \/ SummariseRow

Spec == Init /\ [][Next]_vars

SpecRow == InitRow /\ [][NextRow]_vars

----------------------------------------------------------------------------
(* Properties of the scope builder, under Spec *)

\* ComputeScopes has returned; the scopes do not change afterwards
Built == pc = "built"

\* the categories of a scope's documents, in documents order
DocumentCategories(scope) ==
    [j \in 1..Len(scope.documents) |-> values[scope.documents[j]].type]

\* the distinct non-primary requested categories of scope category s, in
\* the order of their first occurrence in the request
FirstOccurrences(s) ==
    LET idx == {i \in 1..Len(request) :
                    /\ ScopeTypesMap[request[i]] = s
                    /\ request[i] # ScopeFieldsMap[s]
                    /\ \A j \in 1..(i - 1) : request[j] # request[i]}
        nth(k) == CHOOSE i \in idx : Cardinality({j \in idx : j <= i}) = k
    IN  [k \in 1..Cardinality(idx) |-> request[nth(k)]]

\* C1: every returned scope's documents hold no category twice, never the
\* scope's primary category, and are exactly the distinct non-primary
\* requested categories of that scope in order of first occurrence.
C1_DocumentsFirstOccurrences ==
    Built =>
        \A n \in 1..Len(scopes) :
            LET cats == DocumentCategories(scopes[n])
            IN  /\ \A j, k \in 1..Len(cats) : j # k => cats[j] # cats[k]
                /\ \A j \in 1..Len(cats) :
                        cats[j] # ScopeFieldsMap[scopes[n].type]
                /\ cats = FirstOccurrences(scopes[n].type)

\* a request of three that repeats its first document category after
\* another document of the same scope: the scope keeps two, the first first
C1_Witness ==
    /\ Built
    /\ Len(request) = 3
    /\ request[3] = request[1]
    /\ request[2] # request[1]
    /\ \E n \in 1..Len(scopes) :
            DocumentCategories(scopes[n]) = <<request[1], request[2]>>

ScopeRank(s) ==
    CASE s = "Identity" -> 1
      [] s = "Address" -> 2
      [] s = "Phone" -> 3
      [] s = "Email" -> 4

ScopeCategories(result) == [n \in 1..Len(result) |-> result[n].type]

\* C2: the returned scopes are in the order Identity, Address, Phone,
\* Email, hold exactly the scope categories some requested category maps
\* to, and every permutation of the request gives the same categories in
\* the same order.
C2_ScopeOrder ==
    Built =>
        /\ \A n, m \in 1..Len(scopes) :
                n < m => ScopeRank(scopes[n].type) < ScopeRank(scopes[m].type)
        /\ {scopes[n].type : n \in 1..Len(scopes)}
                = {ScopeTypesMap[request[i]] : i \in 1..Len(request)}
        /\ \A p \in Permutations(1..Len(request)) :
                LET r == ComputeScopes([i \in 1..Len(request) |-> request[p[i]]],
                                       values, identitySelfieRequired)
                IN  /\ ~r.failed
                    /\ ScopeCategories(r.result) = ScopeCategories(scopes)

\* a request of three scope categories given in the opposite order
C2_Witness ==
    /\ Built
    /\ Len(request) = 3
    /\ ScopeTypesMap[request[1]] = "Email"
    /\ ScopeTypesMap[request[2]] = "Address"
    /\ ScopeTypesMap[request[3]] = "Identity"
    /\ Len(scopes) = 3

\* every requested category is recognised and form.values has it
RequestResolvable ==
    \A i \in 1..Len(request) :
        request[i] \in DOMAIN ScopeTypesMap /\ request[i] \in DOMAIN values

\* form.values has the primary category of every requested scope
PrimariesResolvable ==
    \A i \in 1..Len(request) :
        request[i] \in DOMAIN ScopeTypesMap =>
            ScopeFieldsMap[ScopeTypesMap[request[i]]] \in DOMAIN values

\* C7 as stated: with every requested category recognised and held by
\* form.values, ComputeScopes returns without an assertion failure.
C7_CompletesWhenRequestResolvable ==
    (pc # "start" /\ RequestResolvable) => pc # "aborted"

\* C7 amended: with every requested category recognised, and form.values
\* holding every requested category and the primary category of every
\* scope a requested category maps to, ComputeScopes returns without an
\* assertion failure.
C7_CompletesWhenPrimariesResolvable ==
    (pc # "start" /\ RequestResolvable /\ PrimariesResolvable)
        => pc # "aborted"

\* a request of three completes although form.values lacks a category
C7_Witness ==
    /\ Built
    /\ Len(request) = 3
    /\ DOMAIN values # ValueTypes
    /\ RequestResolvable
    /\ PrimariesResolvable
    /\ \E n \in 1..Len(scopes) : scopes[n].documents # <<>>

IdentityDocuments == {"Passport", "DriverLicense", "IdentityCard"}

AddressDocuments == {"BankStatement", "UtilityBill", "RentalAgreement"}

\* C9: on the scopes ComputeScopes returns, no row reaches an Unexpected
\* branch: Identity documents are passports, licenses or cards, Address
\* documents statements, bills or agreements, Phone and Email have no
\* documents, and the primary value has the scope's primary category.
C9_NoUnexpected ==
    /\ pc = "row" => ~row.fatal
    /\ pc \in {"built", "row"} =>
        \A n \in 1..Len(scopes) :
            LET cats == DocumentCategories(scopes[n])
                allowed == CASE scopes[n].type = "Identity" -> IdentityDocuments
                             [] scopes[n].type = "Address" -> AddressDocuments
                             [] OTHER -> {}
            IN  /\ scopes[n].type \in ScopeTypes
                /\ \A j \in 1..Len(cats) : cats[j] \in allowed
                /\ values[scopes[n].fields].type
                        = ScopeFieldsMap[scopes[n].type]

\* the row of a scope of three filled documents, labelled and summarised
C9_Witness ==
    /\ pc = "row"
    /\ Len(scopes[rowIndex].documents) = 3
    /\ valueData[scopes[rowIndex].documents[1]].scans # 0
    /\ row.title # ""
    /\ row.ready # ""

----------------------------------------------------------------------------
(* Properties of the summary formatter and the row presenter, under SpecRow *)

\* the scope of the last row
Cur == scopes[rowIndex]

\* a row of an Identity or Address scope has been computed
DocumentScopeRow == pc = "row" /\ Cur.type \in {"Identity", "Address"}

\* the first entry of documents with a scan, 0 when no document has one
FirstScanned ==
    IF \A j \in 1..Len(Cur.documents) : valueData[Cur.documents[j]].scans = 0
    THEN 0
    ELSE CHOOSE j \in 1..Len(Cur.documents) :
            /\ valueData[Cur.documents[j]].scans # 0
            /\ \A k \in 1..(j - 1) : valueData[Cur.documents[k]].scans = 0

PrimaryFields == valueData[Cur.fields].fields

RepresentativeFields == valueData[Cur.documents[FirstScanned]].fields

\* row n finds its key in the source it names and its validator accepts it
RowSatisfied(n) ==
    LET r == documentScheme[n]
    IN  IF r.valueClass = "Fields"
        THEN /\ r.key \in DOMAIN PrimaryFields
             /\ r.validate => Validate(PrimaryFields[r.key])
        ELSE /\ FirstScanned # 0
             /\ r.key \in DOMAIN RepresentativeFields
             /\ r.validate => Validate(RepresentativeFields[r.key])

\* the label element, when there is one
LabelElements ==
    IF Len(Cur.documents) > 1 /\ FirstScanned # 0
    THEN <<DocumentLabel(values[Cur.documents[FirstScanned]].type)>>
    ELSE <<>>

\* the element of row n: the formatter applied when the row has one
FormattedElement(n) ==
    LET r == documentScheme[n]
        v == IF r.valueClass = "Fields" THEN PrimaryFields[r.key]
             ELSE RepresentativeFields[r.key]
    IN  IF r.format THEN Format(v) ELSE v

\* C3: in a finished walk every row's element is its formatter applied to
\* the field value when the row has a formatter and the raw value
\* otherwise, for primary-field rows and for document rows alike.
C3_FormatterApplied ==
    (DocumentScopeRow /\ row.ready # "") =>
        row.ready = Join(LabelElements
                         \o [n \in 1..Len(documentScheme) |->
                                FormattedElement(n)], ", ")

\* C4: an Identity scope that requires a selfie and whose representative
\* document has none has the empty summary, whatever the fields and scheme.
C4_NoSelfieNoSummary ==
    (/\ DocumentScopeRow
     /\ Cur.type = "Identity"
     /\ Cur.selfieRequired
     /\ FirstScanned # 0
     /\ ~valueData[Cur.documents[FirstScanned]].selfie)
        => (~row.fatal /\ row.ready = "")

\* such a scope with every field of a two-row scheme present and valid
C4_Witness ==
    /\ DocumentScopeRow
    /\ Cur.type = "Identity"
    /\ Cur.selfieRequired
    /\ FirstScanned # 0
    /\ ~valueData[Cur.documents[FirstScanned]].selfie
    /\ Len(documentScheme) = 2
    /\ \A n \in 1..Len(documentScheme) : RowSatisfied(n)
    /\ row.ready = ""

\* the texts a row can contribute
FieldTexts == FieldStrings \cup {Format(v) : v \in FieldStrings}

\* the joins of the given first elements and one text per scheme row
Summaries(first) ==
    {Join(first \o e, ", ") : e \in [1..Len(documentScheme) -> FieldTexts]}

\* C5: a non-empty summary of a scope of several documents, one of them
\* with scans, is the label of the first document with scans followed by
\* one element per scheme row, joined with ", "; with one document or no
\* document with scans it is the row elements alone.
C5_RepresentativeLabel ==
    (DocumentScopeRow /\ row.ready # "") =>
        IF Len(Cur.documents) > 1 /\ FirstScanned # 0
        THEN row.ready \in Summaries(
                <<DocumentLabel(values[Cur.documents[FirstScanned]].type)>>)
        ELSE row.ready \in Summaries(<<>>)

\* two documents, the first without scans, both rows of the scheme shown
C5_Witness ==
    /\ DocumentScopeRow
    /\ Len(Cur.documents) = 2
    /\ valueData[Cur.documents[1]].scans = 0
    /\ valueData[Cur.documents[2]].scans # 0
    /\ Len(documentScheme) = 2
    /\ row.ready # ""

\* C6: a non-empty summary means every row of the scheme found its key in
\* the source it names and its validator, if any, accepted the value; a
\* missing or rejected field gives the empty summary, never an error.
C6_NoPartialSummary ==
    DocumentScopeRow =>
        /\ ~row.fatal
        /\ row.ready # "" =>
                \A n \in 1..Len(documentScheme) : RowSatisfied(n)

\* a summary of a validated primary row and a validated document row
C6_Witness ==
    /\ DocumentScopeRow
    /\ row.ready # ""
    /\ Len(documentScheme) = 2
    /\ documentScheme[1].valueClass = "Fields"
    /\ documentScheme[2].valueClass = "Scans"
    /\ documentScheme[1].validate
    /\ documentScheme[2].validate

\* the pair of a scope category and document count
TitlePair(scope) ==
    LET n == Len(scope.documents)
        single == DocumentLabel(values[scope.documents[1]].type)
    IN  CASE scope.type = "Identity" /\ n = 0 ->
             <<"lng_passport_personal_details",
               "lng_passport_personal_details_enter">>
          [] scope.type = "Address" /\ n = 0 ->
             <<"lng_passport_address", "lng_passport_address_enter">>
          [] scope.type \in {"Identity", "Address"} /\ n = 1 ->
             <<single, single \o "_upload">>
          [] scope.type = "Identity" /\ n > 1 ->
             <<"lng_passport_identity_title",
               "lng_passport_identity_description">>
          [] scope.type = "Address" /\ n > 1 ->
             <<"lng_passport_address_title",
               "lng_passport_address_description">>
          [] scope.type = "Phone" ->
             <<"lng_passport_phone_title", "lng_passport_phone_description">>
          [] scope.type = "Email" ->
             <<"lng_passport_email_title", "lng_passport_email_description">>

\* C8: title and subtitle follow from the scope category and the number
\* of documents (the single document's category when there is one), and
\* the summary is ComputeScopeRowReadyString of the same scope.
C8_TitleByCount ==
    pc = "row" =>
        /\ ~row.fatal
        /\ <<row.title, row.subtitle>> = TitlePair(Cur)
        /\ row.ready = ComputeScopeRowReadyString(Cur, values, valueData,
                            documentScheme, contactFormat).text

\* two documents, only the second with scans, and a summary
C8_Witness ==
    /\ DocumentScopeRow
    /\ Len(Cur.documents) = 2
    /\ valueData[Cur.documents[1]].scans = 0
    /\ valueData[Cur.documents[2]].scans # 0
    /\ row.ready # ""
    /\ row.title # ""

\* C10: a scope with documents has a non-empty summary only if one of its
\* documents has a scan and, when a selfie is required, the
\* representative document has one.
C10_ReadyNeedsScans ==
    (DocumentScopeRow /\ Cur.documents # <<>> /\ row.ready # "") =>
        /\ FirstScanned # 0
        /\ Cur.selfieRequired =>
                valueData[Cur.documents[FirstScanned]].selfie

====
